---- MODULE Spec2Model ----
(***************************************************************************)
(* Model of heyvito/defip: the netstat routing-table parser                *)
(* (netstat_parser.go) and the default-IP selector (defip.go).             *)
(*                                                                         *)
(* Text is modelled as a sequence of pieces: a piece is either a word (a   *)
(* maximal run of non-blank characters) or one whitespace character        *)
(* (" " or "\t").  Addresses are byte sequences with a zone, as in         *)
(* net/netip.                                                              *)
(***************************************************************************)
EXTENDS Integers, Sequences, FiniteSets, TLC

VARIABLES n, heap, op, line, err, pre, snap, snapVal,
          routes, routesErr, ifTable, ifOrder, candArg, ret,
          script, pc, first

parserVars == <<n, heap, op, line, err, pre, snap, snapVal>>
selVars == <<routes, routesErr, ifTable, ifOrder, candArg, ret>>
idemVars == <<script, pc, first>>
vars == <<n, heap, op, line, err, pre, snap, snapVal,
          routes, routesErr, ifTable, ifOrder, candArg, ret,
          script, pc, first>>

(* ------------------------------ bounds --------------------------------- *)
\* longest route list the parser is driven to
MaxRoutes == 2
\* longest route list a snapshot run is driven to
MaxSnapRoutes == 2

(* ------------------------- program constants --------------------------- *)
NetRouteKindV4 == 1
NetRouteKindV6 == 2

nsDestination == "Destination"
nsFlags == "Flags"
nsNetif == "Netif"
nsGateway == "Gateway"
nsInterface == "Interface"

netstatParserStateHeader == 0
netstatParserStateInternetHeader == 1
netstatParserStateInternet4Header == 2
netstatParserStateInternet4Data == 3
netstatParserStateInternet6Header == 4
netstatParserStateInternet6Data == 5

(* ------------------------------ addresses ------------------------------ *)
\* netip.Addr: the zero Addr has no bytes; Is4 has 4, Is6 has 16
ZeroAddr == [bytes |-> <<>>, zone |-> ""]

Addr4(a, b, c, d) == [bytes |-> <<a, b, c, d>>, zone |-> ""]

Addr6(hi, lo, z) == [bytes |-> hi \o <<0, 0, 0, 0, 0, 0, 0, 0, 0, 0>> \o lo, zone |-> z]

Is4(a) == Len(a.bytes) = 4

Is6(a) == Len(a.bytes) = 16

\* netip.ParseAddr on the words of the vocabulary: dotted quads give an
\* IPv4 address, colon forms an IPv6 address (a %zone suffix is kept), and
\* anything else (names, CIDR suffixes, link#N) fails
ParseAddr(tok) ==
    CASE tok = "0.0.0.0" -> [ok |-> TRUE, addr |-> Addr4(0, 0, 0, 0)]
      [] tok = "192.168.1.1" -> [ok |-> TRUE, addr |-> Addr4(192, 168, 1, 1)]
      [] tok = "10.0.0.0" -> [ok |-> TRUE, addr |-> Addr4(10, 0, 0, 0)]
      [] tok = "10.0.0.1" -> [ok |-> TRUE, addr |-> Addr4(10, 0, 0, 1)]
      [] tok = "::" -> [ok |-> TRUE, addr |-> Addr6(<<0, 0, 0, 0>>, <<0, 0>>, "")]
      [] tok = "::1" -> [ok |-> TRUE, addr |-> Addr6(<<0, 0, 0, 0>>, <<0, 1>>, "")]
      [] tok = "2001:db8::" -> [ok |-> TRUE, addr |-> Addr6(<<32, 1, 13, 184>>, <<0, 0>>, "")]
      [] tok = "fe80::1%en0" -> [ok |-> TRUE, addr |-> Addr6(<<254, 128, 0, 0>>, <<0, 1>>, "en0")]
      [] OTHER -> [ok |-> FALSE, addr |-> ZeroAddr]

(* -------------------------------- text --------------------------------- *)
IsSpace(p) == p \in {" ", "\t"}

\* words joined by single blanks
RECURSIVE Sp(_)
Sp(ws) ==
    IF Len(ws) = 0 THEN <<>>
    ELSE IF Len(ws) = 1 THEN <<ws[1]>>
    ELSE <<ws[1], " ">> \o Sp(Tail(ws))

RECURSIVE TrimLeft(_)
TrimLeft(l) == IF Len(l) > 0 /\ IsSpace(l[1]) THEN TrimLeft(Tail(l)) ELSE l

RECURSIVE TrimRight(_)
TrimRight(l) ==
    IF Len(l) > 0 /\ IsSpace(l[Len(l)]) THEN TrimRight(SubSeq(l, 1, Len(l) - 1)) ELSE l

\* strings.TrimSpace
TrimSpace(l) == TrimRight(TrimLeft(l))

\* strings.ToLower on one word of the vocabulary (the other words of the
\* vocabulary never equal a keyword after lowering; their image is their
\* lower-case spelling)
LowerWord(w) ==
    CASE w \in {"Routing", "ROUTING"} -> "routing"
      [] w \in {"Tables", "TABLES"} -> "tables"
      [] w \in {"Internet:", "INTERNET:"} -> "internet:"
      [] w \in {"Internet6:", "INTERNET6:"} -> "internet6:"
      [] w = "Bridge:" -> "bridge:"
      [] w = "Destination" -> "destination"
      [] w = "Gateway" -> "gateway"
      [] w = "Flags" -> "flags"
      [] w = "Netif" -> "netif"
      [] w = "Interface" -> "interface"
      [] w = "Expire" -> "expire"
      [] w = "Refs" -> "refs"
      [] w = "Use" -> "use"
      [] w = "Mtu" -> "mtu"
      [] w = "UGSc" -> "ugsc"
      [] w = "UCS" -> "ucs"
      [] w = "UG" -> "ug"
      [] w = "UH" -> "uh"
      [] OTHER -> w

\* strings.ToLower
ToLower(l) == [i \in DOMAIN l |-> LowerWord(l[i])]

\* strings.Fields
Fields(l) == SelectSeq(l, LAMBDA p : ~IsSpace(p))

\* the words of the vocabulary that contain '#', ':' and '/'
HashWords == {"link#4"}

ColonWords ==
    {"::", "::1", "2001:db8::", "2001:db8::/32", "fe80::1%en0",
     "Internet:", "INTERNET:", "internet:", "Internet6:", "INTERNET6:",
     "internet6:", "Bridge:"}

SlashWords == {"2001:db8::/32"}

\* strings.Split(w, "/")[0]
BeforeSlash(w) == IF w = "2001:db8::/32" THEN "2001:db8::" ELSE w

(* ------------------------------ parser --------------------------------- *)
\* the zero NetRoute, what clear() leaves in a slice element
ZeroRoute ==
    [Kind |-> 0, Destination |-> ZeroAddr, Flags |-> "", Netif |-> "", Gateway |-> ZeroAddr]

EmptyMap == [k \in {} |-> 0]

\* m[k] of a Go map: the zero value for a missing key
MapGet(m, k) == IF k \in DOMAIN m THEN m[k] ELSE 0

\* m[k] = v
MapSet(m, k, v) == [x \in (DOMAIN m) \cup {k} |-> IF x = k THEN v ELSE m[x]]

\* backing arrays live in heap[1..NArr]; a slice is [arr, len], arr = 0 is
\* the nil slice; its capacity is the length of its array
NilSlice == [arr |-> 0, len |-> 0]

Cap(h, s) == IF s.arr = 0 THEN 0 ELSE Len(h[s.arr])

\* the elements a slice shows
Elems(h, s) == IF s.arr = 0 THEN <<>> ELSE SubSeq(h[s.arr], 1, s.len)

\* an array no live slice refers to
FreeArr(h, used) ==
    CHOOSE i \in DOMAIN h : i \notin used /\ \A j \in DOMAIN h : j \notin used => i <= j

\* arrays referred to by neither slice are dropped
Collect(h, live) == [i \in DOMAIN h |-> IF i \in live THEN h[i] ELSE <<>>]

\* append(s, r): in place while capacity lasts, else into a new array of
\* doubled capacity (the old array is dropped unless a slice in keep uses it)
Append_(h, s, r, keep) ==
    IF s.len < Cap(h, s)
    THEN [heap |-> [h EXCEPT ![s.arr] = [@ EXCEPT ![s.len + 1] = r]],
          slice |-> [arr |-> s.arr, len |-> s.len + 1]]
    ELSE LET a == FreeArr(h, keep)
             c == IF Cap(h, s) = 0 THEN 1 ELSE 2 * Cap(h, s)
             arr == [i \in 1..c |-> IF i <= s.len THEN h[s.arr][i]
                                    ELSE IF i = s.len + 1 THEN r ELSE ZeroRoute]
         IN  [heap |-> Collect([h EXCEPT ![a] = arr], {a} \cup keep),
              slice |-> [arr |-> a, len |-> s.len + 1]]

\* newNetstatParser
newNetstatParser ==
    [state |-> netstatParserStateHeader,
     netData |-> NilSlice,
     net4Fields |-> EmptyMap,
     net6Fields |-> EmptyMap]

\* outcome of a call on the parser: the parser, the heap and the error
\* ("nil", an error name, or "panic" for a run-time panic)
Out(p, h, e) == [n |-> p, heap |-> h, err |-> e]

\* reset that forgets to clear the IPv4 column map
reset_keepsColumns(p, h) ==
    Out([state |-> netstatParserStateHeader,
         netData |-> [arr |-> p.netData.arr, len |-> 0],
         net4Fields |-> p.net4Fields,
         net6Fields |-> EmptyMap],
        IF p.netData.arr = 0 THEN h
        ELSE [h EXCEPT ![p.netData.arr] =
                 [i \in DOMAIN @ |-> IF i <= p.netData.len THEN ZeroRoute ELSE @[i]]],
        "nil")

\* reset that leaves the route list as it is
reset_keepsRoutes(p, h) ==
    Out([state |-> netstatParserStateHeader,
         netData |-> p.netData,
         net4Fields |-> EmptyMap,
         net6Fields |-> EmptyMap],
        h, "nil")

\* reset: clear() zeroes the elements in place, then the slice is cut to 0
reset(p, h) ==
    Out([state |-> netstatParserStateHeader,
         netData |-> [arr |-> p.netData.arr, len |-> 0],
         net4Fields |-> EmptyMap,
         net6Fields |-> EmptyMap],
        IF p.netData.arr = 0 THEN h
        ELSE [h EXCEPT ![p.netData.arr] =
                 [i \in DOMAIN @ |-> IF i <= p.netData.len THEN ZeroRoute ELSE @[i]]],
        "nil")

\* parseHeader that compares without lowering the line
parseHeader_caseSensitive(p, h, l) ==
    IF l = <<"routing", " ", "tables">>
    THEN Out([p EXCEPT !.state = netstatParserStateInternetHeader], h, "nil")
    ELSE Out(p, h, "ErrCantParse")

\* parseHeader
parseHeader(p, h, l) ==
    IF ToLower(l) = <<"routing", " ", "tables">>
    THEN Out([p EXCEPT !.state = netstatParserStateInternetHeader], h, "nil")
    ELSE Out(p, h, "ErrCantParse")

\* parseInternetHeader that takes a banner for the start of another table
\* and stays where it is
parseInternetHeader_bannerStays(p, h, l) ==
    IF Len(l) = 0 THEN Out(p, h, "nil")
    ELSE IF ToLower(l) = <<"internet:">>
    THEN Out([p EXCEPT !.state = netstatParserStateInternet4Header], h, "nil")
    ELSE IF ToLower(l) = <<"internet6:">>
    THEN Out([p EXCEPT !.state = netstatParserStateInternet6Header], h, "nil")
    ELSE IF ToLower(l) = <<"routing", " ", "tables">> THEN Out(p, h, "nil")
    ELSE reset(p, h)

\* parseInternetHeader
parseInternetHeader(p, h, l) ==
    IF Len(l) = 0 THEN Out(p, h, "nil")
    ELSE IF ToLower(l) = <<"internet:">>
    THEN Out([p EXCEPT !.state = netstatParserStateInternet4Header], h, "nil")
    ELSE IF ToLower(l) = <<"internet6:">>
    THEN Out([p EXCEPT !.state = netstatParserStateInternet6Header], h, "nil")
    ELSE reset(p, h)

\* fieldSet.fieldIdx: the 0-based position of the first field equal to name,
\* -1 when there is none
fieldIdx(fields, name) ==
    IF \E i \in DOMAIN fields : fields[i] = name
    THEN (CHOOSE i \in DOMAIN fields :
              fields[i] = name /\ \A j \in DOMAIN fields : fields[j] = name => i <= j) - 1
    ELSE -1

\* the interface column remembered by parseInternetHeader4/6
ifaceColumn(iface, netif) == IF iface > 0 THEN iface ELSE netif

\* the column loop and the interface choice shared by parseInternetHeader4
\* and parseInternetHeader6: ok is FALSE where the code resets
headerColumns(fields, m) ==
    LET d == fieldIdx(fields, nsDestination)
        g == fieldIdx(fields, nsGateway)
        f == fieldIdx(fields, nsFlags)
        iface == fieldIdx(fields, nsInterface)
        netif == fieldIdx(fields, nsNetif)
        m1 == MapSet(m, nsDestination, d)
        m2 == MapSet(m1, nsGateway, g)
        m3 == MapSet(m2, nsFlags, f)
    IN  IF d = -1 THEN [ok |-> FALSE, m |-> m]
        ELSE IF g = -1 THEN [ok |-> FALSE, m |-> m1]
        ELSE IF f = -1 THEN [ok |-> FALSE, m |-> m2]
        ELSE IF iface = -1 /\ netif = -1 THEN [ok |-> FALSE, m |-> m3]
        ELSE [ok |-> TRUE, m |-> MapSet(m3, nsNetif, ifaceColumn(iface, netif))]

\* parseInternetHeader4
parseInternetHeader4(p, h, l) ==
    LET fields == Fields(l)
        c == headerColumns(fields, p.net4Fields)
    IN  IF Len(fields) < 4 THEN reset(p, h)
        ELSE IF ~c.ok THEN reset([p EXCEPT !.net4Fields = c.m], h)
        ELSE Out([p EXCEPT !.net4Fields = c.m,
                           !.state = netstatParserStateInternet4Data], h, "nil")

\* parseInternetHeader6 that, on a missing column, goes back to Header
\* without calling reset
parseInternetHeader6_bareReturn(p, h, l) ==
    LET fields == Fields(l)
        c == headerColumns(fields, p.net6Fields)
    IN  IF Len(fields) < 4 THEN reset(p, h)
        ELSE IF ~c.ok
        THEN Out([p EXCEPT !.net6Fields = c.m, !.state = netstatParserStateHeader], h, "nil")
        ELSE Out([p EXCEPT !.net6Fields = c.m,
                           !.state = netstatParserStateInternet6Data], h, "nil")

\* parseInternetHeader6
parseInternetHeader6(p, h, l) ==
    LET fields == Fields(l)
        c == headerColumns(fields, p.net6Fields)
    IN  IF Len(fields) < 4 THEN reset(p, h)
        ELSE IF ~c.ok THEN reset([p EXCEPT !.net6Fields = c.m], h)
        ELSE Out([p EXCEPT !.net6Fields = c.m,
                           !.state = netstatParserStateInternet6Data], h, "nil")

\* fields[i] is in range (0-based); out of range the index expression panics
InRange(fields, i) == 0 <= i /\ i < Len(fields)

\* fields[i], 0-based
At(fields, i) == fields[i + 1]

\* fields[i] = w
SetAt(fields, i, w) == [fields EXCEPT ![i + 1] = w]

\* an append that keeps one route per destination: a row whose destination
\* is already held replaces that route
appendRoute_mergesDuplicates(p, h, kind, dstIp, gatewayIp, fields, m, keep) ==
    LET fi == MapGet(m, nsFlags)
        ni == MapGet(m, nsNetif)
        held == {i \in 1..p.netData.len : h[p.netData.arr][i].Destination = dstIp}
    IN  IF ~InRange(fields, fi) \/ ~InRange(fields, ni) THEN Out(p, h, "panic")
        ELSE LET r == [Kind |-> kind,
                       Destination |-> dstIp,
                       Flags |-> At(fields, fi),
                       Netif |-> At(fields, ni),
                       Gateway |-> gatewayIp]
                 a == Append_(h, p.netData, r, keep)
             IN  IF held # {}
                 THEN Out(p, [h EXCEPT ![p.netData.arr] =
                                 [i \in DOMAIN @ |-> IF i \in held THEN r ELSE @[i]]], "nil")
                 ELSE Out([p EXCEPT !.netData = a.slice], a.heap, "nil")

\* the NetRoute literal and the append that end parseInternet4Data and
\* parseInternet6Data; keep names the arrays other slices still use
appendRoute(p, h, kind, dstIp, gatewayIp, fields, m, keep) ==
    LET fi == MapGet(m, nsFlags)
        ni == MapGet(m, nsNetif)
    IN  IF ~InRange(fields, fi) \/ ~InRange(fields, ni) THEN Out(p, h, "panic")
        ELSE LET r == [Kind |-> kind,
                       Destination |-> dstIp,
                       Flags |-> At(fields, fi),
                       Netif |-> At(fields, ni),
                       Gateway |-> gatewayIp]
                 a == Append_(h, p.netData, r, keep)
             IN  Out([p EXCEPT !.netData = a.slice], a.heap, "nil")

\* parseInternet4Data
parseInternet4Data(p, h, l, keep) ==
    LET fields == Fields(l)
        gi == MapGet(p.net4Fields, nsGateway)
        di == MapGet(p.net4Fields, nsDestination)
    IN  IF Len(l) = 0
        THEN Out([p EXCEPT !.state = netstatParserStateInternetHeader], h, "nil")
        ELSE IF ~InRange(fields, gi) THEN Out(p, h, "panic")
        ELSE IF At(fields, gi) \in HashWords \cup ColonWords THEN Out(p, h, "nil")
        ELSE IF ~InRange(fields, di) THEN Out(p, h, "panic")
        ELSE LET fields2 == IF At(fields, di) = "default"
                            THEN SetAt(fields, di, "0.0.0.0") ELSE fields
                 dst == ParseAddr(At(fields2, di))
                 gw == ParseAddr(At(fields2, gi))
             IN  IF ~dst.ok THEN Out(p, h, "nil")
                 ELSE IF ~gw.ok THEN Out(p, h, "nil")
                 ELSE appendRoute(p, h, NetRouteKindV4, dst.addr, gw.addr,
                                  fields2, p.net4Fields, keep)

\* parseInternet6Data that takes a colon in the gateway for a link-level
\* address, as the IPv4 parser does
parseInternet6Data_skipsColon(p, h, l, keep) ==
    LET fields == Fields(l)
        gi == MapGet(p.net6Fields, nsGateway)
        di == MapGet(p.net6Fields, nsDestination)
    IN  IF Len(l) = 0
        THEN Out([p EXCEPT !.state = netstatParserStateInternetHeader], h, "nil")
        ELSE IF ~InRange(fields, gi) THEN Out(p, h, "panic")
        ELSE IF At(fields, gi) \in HashWords \cup ColonWords THEN Out(p, h, "nil")
        ELSE IF ~InRange(fields, di) THEN Out(p, h, "panic")
        ELSE LET fields2 == IF At(fields, di) = "default"
                            THEN SetAt(fields, di, "::") ELSE fields
                 fields3 == IF At(fields2, di) \in SlashWords
                            THEN SetAt(fields2, di, BeforeSlash(At(fields2, di)))
                            ELSE fields2
                 dst == ParseAddr(At(fields3, di))
                 gw == ParseAddr(At(fields3, gi))
             IN  IF ~dst.ok THEN Out(p, h, "ParseAddrError")
                 ELSE IF ~gw.ok THEN Out(p, h, "nil")
                 ELSE appendRoute(p, h, NetRouteKindV6, dst.addr, gw.addr,
                                  fields3, p.net6Fields, keep)

\* parseInternet6Data that passes over a row with an unparseable
\* destination without an error, as the IPv4 parser does
parseInternet6Data_destSkipped(p, h, l, keep) ==
    LET fields == Fields(l)
        gi == MapGet(p.net6Fields, nsGateway)
        di == MapGet(p.net6Fields, nsDestination)
    IN  IF Len(l) = 0
        THEN Out([p EXCEPT !.state = netstatParserStateInternetHeader], h, "nil")
        ELSE IF ~InRange(fields, gi) THEN Out(p, h, "panic")
        ELSE IF At(fields, gi) \in HashWords THEN Out(p, h, "nil")
        ELSE IF ~InRange(fields, di) THEN Out(p, h, "panic")
        ELSE LET fields2 == IF At(fields, di) = "default"
                            THEN SetAt(fields, di, "::") ELSE fields
                 fields3 == IF At(fields2, di) \in SlashWords
                            THEN SetAt(fields2, di, BeforeSlash(At(fields2, di)))
                            ELSE fields2
                 dst == ParseAddr(At(fields3, di))
                 gw == ParseAddr(At(fields3, gi))
             IN  IF ~dst.ok THEN Out(p, h, "nil")
                 ELSE IF ~gw.ok THEN Out(p, h, "nil")
                 ELSE appendRoute(p, h, NetRouteKindV6, dst.addr, gw.addr,
                                  fields3, p.net6Fields, keep)

\* parseInternet6Data
parseInternet6Data(p, h, l, keep) ==
    LET fields == Fields(l)
        gi == MapGet(p.net6Fields, nsGateway)
        di == MapGet(p.net6Fields, nsDestination)
    IN  IF Len(l) = 0
        THEN Out([p EXCEPT !.state = netstatParserStateInternetHeader], h, "nil")
        ELSE IF ~InRange(fields, gi) THEN Out(p, h, "panic")
        ELSE IF At(fields, gi) \in HashWords THEN Out(p, h, "nil")
        ELSE IF ~InRange(fields, di) THEN Out(p, h, "panic")
        ELSE LET fields2 == IF At(fields, di) = "default"
                            THEN SetAt(fields, di, "::") ELSE fields
                 fields3 == IF At(fields2, di) \in SlashWords
                            THEN SetAt(fields2, di, BeforeSlash(At(fields2, di)))
                            ELSE fields2
                 dst == ParseAddr(At(fields3, di))
                 gw == ParseAddr(At(fields3, gi))
             IN  IF ~dst.ok THEN Out(p, h, "ParseAddrError")
                 ELSE IF ~gw.ok THEN Out(p, h, "nil")
                 ELSE appendRoute(p, h, NetRouteKindV6, dst.addr, gw.addr,
                                  fields3, p.net6Fields, keep)

\* feed
feed(p, h, rawLine, keep) ==
    LET l == TrimSpace(rawLine)
    IN  CASE p.state = netstatParserStateHeader -> parseHeader(p, h, l)
          [] p.state = netstatParserStateInternetHeader -> parseInternetHeader(p, h, l)
          [] p.state = netstatParserStateInternet4Header -> parseInternetHeader4(p, h, l)
          [] p.state = netstatParserStateInternet4Data -> parseInternet4Data(p, h, l, keep)
          [] p.state = netstatParserStateInternet6Header -> parseInternetHeader6(p, h, l)
          [] p.state = netstatParserStateInternet6Data -> parseInternet6Data(p, h, l, keep)

\* result that returns the parser's own slice instead of a copy
result_alias(p, h) == [heap |-> h, slice |-> p.netData]

\* result: a new array of len(n.netData) elements, filled by the copy loop
result(p, h) ==
    IF p.netData.len = 0 THEN [heap |-> h, slice |-> NilSlice]
    ELSE LET a == FreeArr(h, {p.netData.arr})
         IN  [heap |-> Collect([h EXCEPT ![a] = Elems(h, p.netData)], {a, p.netData.arr}),
              slice |-> [arr |-> a, len |-> p.netData.len]]

(* ----------------------------- net/netip ------------------------------- *)
\* lexicographic order of two byte sequences of one length: -1, 0 or 1
RECURSIVE CompareBytes(_, _)
CompareBytes(x, y) ==
    IF Len(x) = 0 THEN 0
    ELSE IF x[1] < y[1] THEN -1
    ELSE IF x[1] > y[1] THEN 1
    ELSE CompareBytes(Tail(x), Tail(y))

\* the zones of the model in string order
ZoneRank(z) ==
    CASE z = "" -> 0
      [] z = "en0" -> 1
      [] z = "en1" -> 2
      [] z = "lo0" -> 3

\* netip.Addr.Compare: by bit length, then by address, then (IPv6) by zone
Compare(ip, ip2) ==
    IF Len(ip.bytes) < Len(ip2.bytes) THEN -1
    ELSE IF Len(ip.bytes) > Len(ip2.bytes) THEN 1
    ELSE IF CompareBytes(ip.bytes, ip2.bytes) # 0 THEN CompareBytes(ip.bytes, ip2.bytes)
    ELSE IF Is6(ip) /\ ZoneRank(ip.zone) < ZoneRank(ip2.zone) THEN -1
    ELSE IF Is6(ip) /\ ZoneRank(ip.zone) > ZoneRank(ip2.zone) THEN 1
    ELSE 0

\* netip.Addr.WithZone: a no-op on anything but IPv6
WithZone(ip, zone) == IF Is6(ip) THEN [ip EXCEPT !.zone = zone] ELSE ip

\* netip.Addr.IsPrivate: 10/8, 172.16/12, 192.168/16 and fc00::/7
IsPrivate(ip) ==
    IF Is4(ip)
    THEN \/ ip.bytes[1] = 10
         \/ ip.bytes[1] = 172 /\ ip.bytes[2] \in 16..31
         \/ ip.bytes[1] = 192 /\ ip.bytes[2] = 168
    ELSE Is6(ip) /\ ip.bytes[1] \in {252, 253}

\* netip.Addr.IsLoopback
IsLoopback(ip) ==
    IF Is4(ip) THEN ip.bytes[1] = 127
    ELSE Is6(ip) /\ ip.bytes = <<0, 0, 0, 0, 0, 0, 0, 0, 0, 0, 0, 0, 0, 0, 0, 1>>

\* netip.Addr.IsMulticast
IsMulticast(ip) ==
    IF Is4(ip) THEN ip.bytes[1] \in 224..239
    ELSE Is6(ip) /\ ip.bytes[1] = 255

\* netip.Addr.IsLinkLocalUnicast: 169.254/16 and fe80::/10
IsLinkLocalUnicast(ip) ==
    IF Is4(ip) THEN ip.bytes[1] = 169 /\ ip.bytes[2] = 254
    ELSE Is6(ip) /\ ip.bytes[1] = 254 /\ ip.bytes[2] \in 128..191

\* netip.Addr.IsGlobalUnicast
IsGlobalUnicast(ip) ==
    /\ ip # ZeroAddr
    /\ ~(Is4(ip) /\ ip.bytes \in {<<0, 0, 0, 0>>, <<255, 255, 255, 255>>})
    /\ ip # Addr6(<<0, 0, 0, 0>>, <<0, 0>>, "")
    /\ ~IsLoopback(ip)
    /\ ~IsMulticast(ip)
    /\ ~IsLinkLocalUnicast(ip)

\* net.IP.To4: a 4-byte IP, or the last 4 bytes of a 16-byte IPv4-mapped
\* one; <<>> stands for nil
To4(ip) ==
    IF Len(ip) = 4 THEN ip
    ELSE IF /\ Len(ip) = 16
            /\ SubSeq(ip, 1, 12) = <<0, 0, 0, 0, 0, 0, 0, 0, 0, 0, 255, 255>>
    THEN SubSeq(ip, 13, 16)
    ELSE <<>>

(* ------------------------------ selector ------------------------------- *)
\* the letters of the flag words of the model
FlagLetters(w) ==
    CASE w = "UG" -> {"U", "G"}
      [] w = "UGSc" -> {"U", "G", "S", "c"}
      [] w = "UGH" -> {"U", "G", "H"}
      [] w = "UH" -> {"U", "H"}
      [] w = "UCS" -> {"U", "C", "S"}
      [] w = "U" -> {"U"}

\* NetRoute.HasFlags: strings.Contains(n.Flags, v) for every v
HasFlags(r, flags) == \A v \in flags : v \in FlagLetters(r.Flags)

\* filterRoute
filterRoute(r) == HasFlags(r, {"U", "G"}) /\ ~HasFlags(r, {"H"})

\* the generic filter
filter(set, fn(_)) == SelectSeq(set, fn)

\* the predicate FindDefaultIP hands to filter for the route list
isDefaultRoute(i) == HasFlags(i, {"U", "G"})

\* the keys of the ifaces map FindDefaultIP fills from the filtered routes
ifaceNames(rs) == {rs[i].Netif : i \in DOMAIN rs}

\* the inner loop of FindDefaultIP over one interface's addresses: entries
\* that are no *net.IPNet or are of the other family are passed over
RECURSIVE ifaceAddrs(_, _, _)
ifaceAddrs(name, kind, ips) ==
    IF Len(ips) = 0 THEN <<>>
    ELSE LET v == ips[1]
             v4 == To4(v.ip)
             rest == ifaceAddrs(name, kind, Tail(ips))
         IN  IF ~v.ipnet THEN rest
             ELSE IF v4 # <<>>
             THEN IF kind # NetRouteKindV4 THEN rest
                  ELSE <<WithZone([bytes |-> v4, zone |-> ""], name)>> \o rest
             ELSE IF kind # NetRouteKindV6 THEN rest
                  ELSE <<WithZone([bytes |-> v.ip, zone |-> ""], name)>> \o rest

\* an outer loop that passes over an interface whose lookup fails
RECURSIVE collectAddrs_skipsFailed(_, _, _)
collectAddrs_skipsFailed(order, kind, tbl) ==
    IF Len(order) = 0 THEN [err |-> "nil", addrs |-> <<>>]
    ELSE LET name == order[1]
             rest == collectAddrs_skipsFailed(Tail(order), kind, tbl)
         IN  IF tbl[name].err # "nil" THEN rest
             ELSE [err |-> "nil",
                   addrs |-> ifaceAddrs(name, kind, tbl[name].addrs) \o rest.addrs]

\* the outer loop of FindDefaultIP over the interface names, in the order
\* the map iteration yields them: the first failing lookup ends the call
RECURSIVE collectAddrs(_, _, _)
collectAddrs(order, kind, tbl) ==
    IF Len(order) = 0 THEN [err |-> "nil", addrs |-> <<>>]
    ELSE LET name == order[1]
         IN  IF tbl[name].err # "nil" THEN [err |-> tbl[name].err, addrs |-> <<>>]
             ELSE LET rest == collectAddrs(Tail(order), kind, tbl)
                  IN  IF rest.err # "nil" THEN rest
                      ELSE [err |-> "nil",
                            addrs |-> ifaceAddrs(name, kind, tbl[name].addrs) \o rest.addrs]

ulaEnd ==
    [bytes |-> <<253, 255, 255, 255, 255, 255, 255, 255, 255, 255, 255, 255, 255, 255, 255, 255>>,
     zone |-> ""]

ulaStart == Addr6(<<253, 0, 0, 0>>, <<0, 0>>, "")

\* isULA
isULA(addr) == Compare(addr, ulaStart) >= 0 /\ Compare(addr, ulaEnd) <= 0

\* the weight sortWeighted gives an address
weightOf(v) ==
    (IF isULA(v) THEN 2 ELSE 0) + (IF IsPrivate(v) THEN 1 ELSE 0)
        + (IF IsGlobalUnicast(v) THEN 1 ELSE 0)

\* the orders slices.SortFunc may leave a list in: every arrangement of its
\* elements by descending weight (the sort is not stable, so elements of
\* equal weight may come out in any order)
sortWeighted(list) ==
    LET N == Len(list)
        perms == {p \in [1..N -> 1..N] : \A i, j \in 1..N : i # j => p[i] # p[j]}
    IN  {[i \in 1..N |-> list[p[i]]] : p \in
            {q \in perms : \A i \in 1..(N - 1) :
                weightOf(list[q[i]]) >= weightOf(list[q[i + 1]])}}

\* the predicate selectIP hands to filter
ofKind(kind, i) ==
    (kind = NetRouteKindV6 /\ Is6(i)) \/ (kind = NetRouteKindV4 /\ Is4(i))

\* selectIP: the possible outcomes; &list[0] of an empty list panics, and
\* the pointer returned otherwise is never nil
selectIP(kind, list) ==
    LET l == filter(list, LAMBDA i : ofKind(kind, i))
    IN  IF Len(l) = 0
        THEN {[panic |-> TRUE, isNil |-> FALSE, addr |-> ZeroAddr, cands |-> l, sorted |-> l]}
        ELSE {[panic |-> FALSE, isNil |-> FALSE, addr |-> s[1], cands |-> l, sorted |-> s] :
                 s \in sortWeighted(l)}

\* the orders a range over a map of these keys may take
Orders(names) ==
    {o \in [1..Cardinality(names) -> names] : \A i, j \in DOMAIN o : i # j => o[i] # o[j]}

\* what a call leaves for the caller
Ret(o, kind, e, a, names, c, s) ==
    [op |-> o, kind |-> kind, err |-> e, addr |-> a, ifaces |-> names, cands |-> c, sorted |-> s]

\* FindDefaultIP: the possible outcomes for one iteration order of ifaces
FindDefaultIP(kind, rs, rerr, tbl, order) ==
    IF rerr # "nil" THEN {Ret("FindDefaultIP", kind, "panic", ZeroAddr, {}, <<>>, <<>>)}
    ELSE LET names == ifaceNames(filter(rs, isDefaultRoute))
             c == collectAddrs(order, kind, tbl)
         IN  IF c.err # "nil"
             THEN {Ret("FindDefaultIP", kind, c.err, ZeroAddr, names, <<>>, <<>>)}
             ELSE {Ret("FindDefaultIP", kind,
                       IF r.panic THEN "panic" ELSE IF r.isNil THEN "ErrNoIP" ELSE "nil",
                       r.addr, names, r.cands, r.sorted) : r \in selectIP(kind, c.addrs)}

(* ------------------------------ inputs --------------------------------- *)
BannerLines ==
    {Sp(<<"Routing", "tables">>),
     <<" ", "ROUTING", " ", "TABLES", "\t">>,
     <<"Routing", "\t", "tables">>}

SectionLines == {<<"Internet:">>, <<"INTERNET6:">>, <<"Bridge:">>}

BlankLines == {<<>>, <<" ">>}

ColumnLines ==
    {Sp(<<"Destination", "Gateway", "Flags", "Netif", "Expire">>),
     Sp(<<"Destination", "Gateway", "Flags", "Refs", "Use", "Mtu", "Interface">>),
     Sp(<<"Interface", "Destination", "Gateway", "Flags">>),
     Sp(<<"Destination", "Gateway", "Flags", "Netif", "Interface">>),
     Sp(<<"Destination", "Gateway", "Netif", "Expire">>),
     Sp(<<"Destination", "Gateway", "Flags">>),
     Sp(<<"Destination", "Gateway", "Flags", "Expire">>)}

RowLines ==
    {Sp(<<"default", "192.168.1.1", "UGSc", "en0">>),
     Sp(<<"169.254", "link#4", "UCS", "en0">>),
     Sp(<<"2001:db8::/32", "fe80::1%en0", "UG", "en1">>),
     Sp(<<"::1", "10.0.0.1", "UH", "lo0">>),
     Sp(<<"garbage", "10.0.0.1", "UG", "en0">>),
     Sp(<<"default", "garbage", "UG", "en0">>),
     <<"default">>}

Lines == BannerLines \cup SectionLines \cup BlankLines \cup ColumnLines \cup RowLines

\* the lines a snapshot run feeds
SnapLines ==
    {Sp(<<"Routing", "tables">>), <<"Internet:">>, <<"INTERNET6:">>, <<"Bridge:">>, <<>>,
     Sp(<<"Destination", "Gateway", "Flags", "Netif", "Expire">>),
     Sp(<<"default", "192.168.1.1", "UGSc", "en0">>),
     Sp(<<"2001:db8::/32", "fe80::1%en0", "UG", "en1">>)}

\* arrays: the parser's, a snapshot's, and one more while append moves
NArr == 3

(* --------------------------- parser actions ---------------------------- *)
ParserInit ==
    /\ n = newNetstatParser
    /\ heap = [i \in 1..NArr |-> <<>>]
    /\ op = "new"
    /\ line = <<>>
    /\ err = "nil"
    /\ pre = [state |-> netstatParserStateHeader, len |-> 0]
    /\ snap = NilSlice
    /\ snapVal = <<>>

SelIdle ==
    /\ routes = <<>>
    /\ routesErr = "nil"
    /\ ifTable = <<>>
    /\ ifOrder = <<>>
    /\ candArg = <<>>
    /\ ret = [op |-> "none"]

\* no two-pass run is under way
IdemIdle ==
    /\ script = <<>>
    /\ pc = [pass |-> "none", i |-> 0]
    /\ first = <<>>

\* n.feed(l): a panic ends the program; line, err and pre record the call
\* (the line fed, what feed returned, the state and the list length before)
FeedStep(l, max) ==
    /\ err # "panic"
    /\ \E o \in {feed(n, heap, l, {snap.arr} \ {0})} :
           /\ o.n.netData.len <= max
           /\ n' = o.n
           /\ heap' = o.heap
           /\ err' = o.err
    /\ op' = "feed"
    /\ line' = l
    /\ pre' = [state |-> n.state, len |-> n.netData.len]
    /\ UNCHANGED <<snap, snapVal>>
    /\ UNCHANGED selVars

\* a feed outside a two-pass run
Feed(l, max) == FeedStep(l, max) /\ UNCHANGED idemVars

\* n.result(): the caller keeps the returned list
Result ==
    /\ err # "panic"
    /\ \E o \in {result(n, heap)} :
           /\ heap' = o.heap
           /\ snap' = o.slice
           /\ snapVal' = Elems(heap, n.netData)
    /\ op' = "result"
    /\ UNCHANGED <<n, line, err, pre>>
    /\ UNCHANGED selVars
    /\ UNCHANGED idemVars

FeedAny == \E l \in Lines : Feed(l, MaxRoutes)

Init == ParserInit /\ SelIdle /\ IdemIdle

Next == FeedAny

Spec == Init /\ [][Next]_vars

FeedSnap == \E l \in SnapLines : Feed(l, MaxSnapRoutes)

NextSnap == FeedSnap \/ Result

SpecSnap == Init /\ [][NextSnap]_vars

(* --------------------------- two-pass runs ----------------------------- *)
\* most data rows of a script
MaxIdemRows == 2

\* data rows of a script: rows of four tokens, as the Darwin header asks
IdemRows ==
    {Sp(<<"default", "192.168.1.1", "UGSc", "en0">>),
     Sp(<<"10.0.0.0", "link#4", "UCS", "en0">>),
     Sp(<<"2001:db8::/32", "fe80::1%en0", "UG", "en1">>),
     Sp(<<"::1", "10.0.0.1", "UH", "lo0">>)}

\* a script: the banner, a section name, the column header, the data rows
IdemScripts ==
    {<<b, s, Sp(<<"Destination", "Gateway", "Flags", "Netif", "Expire">>)>> \o rows :
        b \in {Sp(<<"Routing", "tables">>), <<" ", "ROUTING", " ", "TABLES", "\t">>},
        s \in {<<"Internet:">>, <<"INTERNET6:">>},
        rows \in UNION {[1..m -> IdemRows] : m \in 0..MaxIdemRows}}

\* a parser is constructed and a script chosen to be fed to it twice
IdemInit ==
    /\ script \in IdemScripts
    /\ pc = [pass |-> "first", i |-> 1]
    /\ first = <<>>

\* the next line of the script is fed
IdemFeed ==
    /\ pc.pass \in {"first", "second"}
    /\ pc.i <= Len(script)
    /\ FeedStep(script[pc.i], MaxIdemRows)
    /\ pc' = [pc EXCEPT !.i = pc.i + 1]
    /\ UNCHANGED <<script, first>>

\* the script is through for the first time: the caller takes n.result()
IdemResult ==
    /\ err # "panic"
    /\ pc.pass = "first"
    /\ pc.i = Len(script) + 1
    /\ \E o \in {result(n, heap)} : first' = Elems(o.heap, o.slice)
    /\ pc' = [pass |-> "reset", i |-> 0]
    /\ op' = "result"
    /\ UNCHANGED <<n, heap, line, err, pre, snap, snapVal, script>>
    /\ UNCHANGED selVars

\* n.reset(), after which the script is fed again from its first line
IdemReset ==
    /\ pc.pass = "reset"
    /\ \E o \in {reset(n, heap)} :
           /\ n' = o.n
           /\ heap' = o.heap
           /\ err' = o.err
    /\ pc' = [pass |-> "second", i |-> 1]
    /\ op' = "reset"
    /\ pre' = [state |-> n.state, len |-> n.netData.len]
    /\ UNCHANGED <<line, snap, snapVal, script, first>>
    /\ UNCHANGED selVars

InitIdem == ParserInit /\ SelIdle /\ IdemInit

NextIdem == IdemFeed \/ IdemResult \/ IdemReset

SpecIdem == InitIdem /\ [][NextIdem]_vars

(* -------------------------- selector inputs ---------------------------- *)
\* longest route list the route source hands to FindDefaultIP
MaxSelRoutes == 2
\* longest candidate list handed to selectIP directly
MaxCands == 2

Kinds == {NetRouteKindV4, NetRouteKindV6}

SeqsUpTo(S, k) == UNION {[1..m -> S] : m \in 0..k}

Rt(kind, flags, netif) ==
    [Kind |-> kind,
     Destination |-> IF kind = NetRouteKindV4 THEN Addr4(0, 0, 0, 0)
                     ELSE Addr6(<<0, 0, 0, 0>>, <<0, 0>>, ""),
     Flags |-> flags,
     Netif |-> netif,
     Gateway |-> IF kind = NetRouteKindV4 THEN Addr4(192, 168, 1, 1)
                 ELSE Addr6(<<254, 128, 0, 0>>, <<0, 1>>, netif)]

SelRoutes ==
    {Rt(NetRouteKindV4, "UGSc", "en0"), Rt(NetRouteKindV4, "UGH", "en1"),
     Rt(NetRouteKindV6, "UG", "en1"), Rt(NetRouteKindV4, "UH", "lo0")}

\* net.IP values as the interface collaborator yields them
ip192168 == <<0, 0, 0, 0, 0, 0, 0, 0, 0, 0, 255, 255, 192, 168, 1, 5>>

ip10 == <<10, 0, 0, 5>>

ip8888 == <<8, 8, 8, 8>>

ip169254 == <<169, 254, 10, 1>>

ipfd12 == Addr6(<<253, 18, 0, 0>>, <<0, 1>>, "").bytes

ipfdff == ulaEnd.bytes

ipfc00 == Addr6(<<252, 0, 0, 0>>, <<0, 1>>, "").bytes

ip2001 == Addr6(<<32, 1, 13, 184>>, <<0, 1>>, "").bytes

ipfe80 == Addr6(<<254, 128, 0, 0>>, <<0, 1>>, "").bytes

IPNet(ip) == [ipnet |-> TRUE, ip |-> ip]

\* an address of another type than *net.IPNet
IPAddr(ip) == [ipnet |-> FALSE, ip |-> ip]

Iface(addrs) == [err |-> "nil", addrs |-> addrs]

IfaceErr(e) == [err |-> e, addrs |-> <<>>]

IfNames == {"en0", "en1", "lo0"}

IfTable(en0, en1) ==
    [nm \in IfNames |-> IF nm = "en0" THEN en0 ELSE IF nm = "en1" THEN en1
                        ELSE Iface(<<IPNet(<<127, 0, 0, 1>>)>>)]

IfTables ==
    {IfTable(Iface(<<IPNet(ip192168), IPNet(ipfe80)>>), Iface(<<IPNet(ip8888), IPNet(ipfd12)>>)),
     IfTable(Iface(<<IPNet(ipfc00), IPNet(ipfdff)>>), Iface(<<IPNet(ip2001), IPAddr(ipfd12)>>)),
     IfTable(Iface(<<IPNet(ip169254), IPNet(ip192168)>>), IfaceErr("InterfaceByName")),
     IfTable(Iface(<<IPNet(ip192168), IPNet(ip10)>>), Iface(<<IPNet(ip8888), IPNet(ip2001)>>)),
     IfTable(Iface(<<IPNet(ipfe80), IPNet(ip2001), IPNet(ipfd12)>>), IfaceErr("Addrs"))}

\* candidate addresses for direct calls of selectIP
SelAddrs ==
    {[bytes |-> To4(ip192168), zone |-> ""], [bytes |-> ip10, zone |-> ""],
     [bytes |-> ip8888, zone |-> ""],
     [bytes |-> ipfd12, zone |-> ""], [bytes |-> ipfdff, zone |-> "en0"],
     [bytes |-> ipfc00, zone |-> "en0"], [bytes |-> ip2001, zone |-> "en1"],
     [bytes |-> ipfe80, zone |-> "en0"]}

(* -------------------------- selector actions --------------------------- *)
\* the environment of a call: what getRoutes returns and what the
\* interface lookups return
SelInit ==
    /\ routesErr \in {"nil", "ErrNotImplemented", "ErrCantParse"}
    /\ routes \in (IF routesErr = "nil" THEN SeqsUpTo(SelRoutes, MaxSelRoutes) ELSE {<<>>})
    /\ ifTable \in IfTables
    /\ ifOrder = <<>>
    /\ candArg = <<>>
    /\ ret = [op |-> "none"]

\* FindDefaultIP(kind), once in the drawn environment
CallFindDefaultIP ==
    /\ ret.op = "none"
    /\ UNCHANGED parserVars
    /\ UNCHANGED idemVars
    /\ \E kind \in Kinds :
        \E order \in Orders(ifaceNames(filter(routes, isDefaultRoute))) :
            \E r \in FindDefaultIP(kind, routes, routesErr, ifTable, order) :
                /\ ret' = r
                /\ ifOrder' = order
                /\ candArg' = <<>>
                /\ UNCHANGED <<routes, routesErr, ifTable>>

\* selectIP(kind, list), once
CallSelectIP ==
    /\ ret.op = "none"
    /\ UNCHANGED parserVars
    /\ UNCHANGED idemVars
    /\ \E kind \in Kinds :
        \E list \in SeqsUpTo(SelAddrs, MaxCands) :
            \E r \in selectIP(kind, list) :
                /\ ret' = Ret("selectIP", kind, IF r.panic THEN "panic" ELSE "nil",
                              r.addr, {}, r.cands, r.sorted)
                /\ candArg' = list
                /\ ifOrder' = <<>>
                /\ UNCHANGED <<routes, routesErr, ifTable>>

NextSel == CallFindDefaultIP \/ CallSelectIP

InitSel == ParserInit /\ SelInit /\ IdemIdle

SpecSel == InitSel /\ [][NextSel]_vars

(* ------------------------- reading the claims -------------------------- *)
\* the lines of the model that are the "routing tables" banner once trimmed
\* and lowered, listed by hand
IsBannerLine(l) == l \in {<<"Routing", " ", "tables">>, <<" ", "ROUTING", " ", "TABLES", "\t">>}

IsBlankLine(l) == l \in {<<>>, <<" ">>}

\* the lines that name a section, in any letter case
IsSectionLine(l) == l \in {<<"Internet:">>, <<"INTERNET6:">>}

DataStates == {netstatParserStateInternet4Data, netstatParserStateInternet6Data}

\* the routes the parser holds
Routes == Elems(heap, n.netData)

\* the last feed ran in state Internet6Data on a row whose destination
\* token, after the default and CIDR rewrites, is no address
V6DestFails ==
    /\ pre.state = netstatParserStateInternet6Data
    /\ LET f == Fields(line)
           di == MapGet(n.net6Fields, nsDestination)
       IN  /\ InRange(f, di)
           /\ At(f, di) \notin {"default", "2001:db8::/32"}
           /\ ~ParseAddr(At(f, di)).ok

(* ------------------------------- claims -------------------------------- *)
\* a call of FindDefaultIP whose route source and interface lookups worked
LookupsWorked ==
    /\ ret.op = "FindDefaultIP"
    /\ routesErr = "nil"
    /\ ret.err \notin {"InterfaceByName", "Addrs"}

\* C1: FindDefaultIP returns NoIP, and no address and no crash, whenever no
\* candidate address is left after filtering.
C1_NoIPWhenNoCandidate ==
    (LookupsWorked /\ ret.cands = <<>>) => (ret.err = "ErrNoIP" /\ ret.addr = ZeroAddr)

\* C2: the interfaces FindDefaultIP takes candidate addresses from are those
\* of the routes whose flags hold U and G and not H.
C2_OnlyNonHostDefaults ==
    LookupsWorked =>
        ret.ifaces = {routes[i].Netif : i \in {j \in DOMAIN routes : filterRoute(routes[j])}}

\* C3: a feed in state Header returns no error and moves to InternetHeader
\* when the line is the banner in any letter case, and otherwise returns
\* CantParse, stays in Header and leaves the route list empty.
C3_BannerDecidesHeader ==
    (op = "feed" /\ pre.state = netstatParserStateHeader) =>
        IF IsBannerLine(line)
        THEN err = "nil" /\ n.state = netstatParserStateInternetHeader
        ELSE /\ err = "ErrCantParse"
             /\ n.state = netstatParserStateHeader
             /\ Routes = <<>>

\* a fresh parser was fed a line with a tab between the two banner words
\* and refused it
C3_Witness ==
    /\ op = "feed"
    /\ pre.state = netstatParserStateHeader
    /\ line = <<"Routing", "\t", "tables">>
    /\ err = "ErrCantParse"
    /\ n = newNetstatParser

\* C4: in state InternetHeader with at least one route, a non-blank line
\* that names no section returns no error, empties the route list (and what
\* result() returns), clears both column maps and moves to Header.
C4_UnknownSectionResets ==
    (/\ op = "feed"
     /\ pre.state = netstatParserStateInternetHeader
     /\ pre.len >= 1
     /\ ~IsBlankLine(line)
     /\ ~IsSectionLine(line)) =>
        /\ err = "nil"
        /\ Routes = <<>>
        /\ LET r == result(n, heap) IN Elems(r.heap, r.slice) = <<>>
        /\ DOMAIN n.net4Fields = {}
        /\ DOMAIN n.net6Fields = {}
        /\ n.state = netstatParserStateHeader

\* a section had left routes, a blank line ended it, and "Bridge:" was fed
C4_Witness ==
    /\ op = "feed"
    /\ pre.state = netstatParserStateInternetHeader
    /\ pre.len >= 1
    /\ line = <<"Bridge:">>
    /\ n.state = netstatParserStateHeader

\* C5: every route the parser holds has a destination and a gateway of the
\* family of its kind.
C5_FamilyMatchesKind ==
    \A i \in DOMAIN Routes :
        LET r == Routes[i]
        IN  /\ r.Kind = NetRouteKindV4 => Is4(r.Destination) /\ Is4(r.Gateway)
            /\ r.Kind = NetRouteKindV6 => Is6(r.Destination) /\ Is6(r.Gateway)

\* C6: feed returns an error only in state Header on a line that is not the
\* banner, or in state Internet6Data on a row whose destination does not
\* parse; every other feed returns no error.
C6_OnlyTwoErrors ==
    op = "feed" =>
        \/ err = "nil"
        \/ pre.state = netstatParserStateHeader /\ ~IsBannerLine(line)
        \/ V6DestFails

\* the part of C6 the code keeps: an error that feed returns comes from one
\* of the two situations (a panic is no returned error)
C6_ReturnedErrorsOnly ==
    op = "feed" =>
        \/ err \in {"nil", "panic"}
        \/ pre.state = netstatParserStateHeader /\ ~IsBannerLine(line)
        \/ V6DestFails

\* C7: in the data states a non-blank row never crashes feed and never
\* changes the state, and the routes held before it are still held.
C7_RowNeverCrashes ==
    (op = "feed" /\ pre.state \in DataStates /\ ~IsBlankLine(line)) =>
        /\ err # "panic"
        /\ n.state = pre.state
        /\ n.netData.len >= pre.len

\* C8: the list result() returned still has the length and the elements it
\* had when it was returned, whatever was fed since.
C8_SnapshotUnaffected == Elems(heap, snap) = snapVal

\* a list of at least one route was returned, and a later feed reset the
\* parser and cleared its buffer
C8_Witness ==
    /\ snapVal # <<>>
    /\ op = "feed"
    /\ pre.len >= 1
    /\ n.state = netstatParserStateHeader
    /\ n.netData.len = 0

\* the list a stable sort by descending weight makes of a list: insertion
\* from the back, an element passing only elements of strictly lower weight
RECURSIVE StableDesc(_)
StableDesc(list) ==
    IF Len(list) = 0 THEN <<>>
    ELSE LET x == list[Len(list)]
             front == StableDesc(SubSeq(list, 1, Len(list) - 1))
             k == Cardinality({i \in DOMAIN front : weightOf(front[i]) >= weightOf(x)})
         IN  SubSeq(front, 1, k) \o <<x>> \o SubSeq(front, k + 1, Len(front))

\* C9: the ranking is the stable sort of the candidates by descending
\* weight, and the address returned is its first element.
C9_StableRanking ==
    (ret.op \in {"FindDefaultIP", "selectIP"} /\ ret.err = "nil") =>
        /\ ret.sorted = StableDesc(ret.cands)
        /\ ret.addr = StableDesc(ret.cands)[1]

\* an address of fd00::/8
InULARange(a) == Is6(a) /\ a.bytes[1] = 253

\* C10: selecting for V6 drops the IPv4 candidates and ranks every
\* unique-local candidate above every other IPv6 candidate, so a
\* unique-local address is returned whenever one is a candidate.
C10_UniqueLocalFirst ==
    (ret.op \in {"FindDefaultIP", "selectIP"} /\ ret.kind = NetRouteKindV6 /\ ret.err = "nil") =>
        /\ \A i \in DOMAIN ret.sorted : Is6(ret.sorted[i])
        /\ \A i, j \in DOMAIN ret.sorted :
               (InULARange(ret.sorted[i]) /\ ~InULARange(ret.sorted[j])) => i < j
        /\ (\E i \in DOMAIN ret.cands : InULARange(ret.cands[i])) => InULARange(ret.addr)

\* C11: when the lookup of an interface named by a surviving route fails,
\* FindDefaultIP returns the error of a failing lookup and no address, even
\* when another interface resolved and has addresses of the kind.
C11_LookupFailureFailsCall ==
    (/\ ret.op = "FindDefaultIP"
     /\ routesErr = "nil"
     /\ \E nm \in ret.ifaces : ifTable[nm].err # "nil") =>
        /\ ret.addr = ZeroAddr
        /\ ret.cands = <<>>
        /\ \E nm \in ret.ifaces : ifTable[nm].err # "nil" /\ ret.err = ifTable[nm].err

\* en0 was looked up first, resolved and has an address of the kind; the
\* lookup of en1 then failed and the call returned its error
C11_Witness ==
    /\ ret.op = "FindDefaultIP"
    /\ routesErr = "nil"
    /\ ret.ifaces = {"en0", "en1"}
    /\ ifOrder = <<"en0", "en1">>
    /\ ifTable["en1"].err = "Addrs"
    /\ ifaceAddrs("en0", ret.kind, ifTable["en0"].addrs) # <<>>
    /\ ret.err = "Addrs"
    /\ ret.addr = ZeroAddr

\* C12: when the route source fails, FindDefaultIP returns that error to
\* its caller, and no address, instead of ending the program.
C12_RouteSourceErrorReturned ==
    (ret.op = "FindDefaultIP" /\ routesErr # "nil") =>
        (ret.err = routesErr /\ ret.addr = ZeroAddr)

\* a newly constructed parser fed the lines ls one after the other: the
\* parser and heap it ends with (a panic ends the run)
RECURSIVE FreshRun(_, _, _)
FreshRun(p, h, ls) ==
    IF Len(ls) = 0 THEN Out(p, h, "nil")
    ELSE LET o == feed(p, h, ls[1], {})
         IN  IF o.err = "panic" THEN o ELSE FreshRun(o.n, o.heap, Tail(ls))

\* what result() of that parser returns
FreshResult(ls) ==
    LET o == FreshRun(newNetstatParser, [i \in 1..NArr |-> <<>>], ls)
        r == result(o.n, o.heap)
    IN  Elems(r.heap, r.slice)

\* C13: a script fed, the parser reset, and the script fed again gives the
\* result() list of the first time, which is the list a newly constructed
\* parser gives; state and column maps are those of that parser too.
C13_ResetThenSameResult ==
    (pc.pass = "second" /\ pc.i = Len(script) + 1) =>
        LET r == result(n, heap)
            f == FreshRun(newNetstatParser, [i \in 1..NArr |-> <<>>], script)
        IN  /\ Elems(r.heap, r.slice) = first
            /\ first = FreshResult(script)
            /\ n.state = f.n.state
            /\ n.net4Fields = f.n.net4Fields
            /\ n.net6Fields = f.n.net6Fields

\* an IPv6 section with two stored routes has been fed for the second time
C13_Witness ==
    /\ pc.pass = "second"
    /\ pc.i = Len(script) + 1
    /\ script[2] = <<"INTERNET6:">>
    /\ Len(first) = MaxIdemRows
    /\ Len(Routes) = MaxIdemRows
    /\ Routes[1].Netif = "en1"
    /\ Routes[2].Netif = "en0"

\* the token of a row in the column a map remembers under name
Token(l, m, name) == At(Fields(l), MapGet(m, name))

\* the row has a token in every column the map remembers
HasColumns(l, m) ==
    \A c \in {nsDestination, nsGateway, nsFlags, nsNetif} : InRange(Fields(l), MapGet(m, c))

\* the destination token of an IPv6 row as it is handed to the address
\* parser: default rewritten, cut at the first slash
Dest6(l, m) ==
    LET d == Token(l, m, nsDestination)
    IN  IF d = "default" THEN "::" ELSE BeforeSlash(d)

\* C14: a row whose gateway token holds # or : in state Internet4Data, or #
\* in state Internet6Data, returns no error and leaves state and routes as
\* they were; in Internet6Data a gateway with a colon and no # does not keep
\* an otherwise acceptable row from being appended.
C14_LinkLevelSkipped ==
    [][(op' = "feed" /\ ~IsBlankLine(line')) =>
        /\ (/\ n.state = netstatParserStateInternet4Data
            /\ InRange(Fields(line'), MapGet(n.net4Fields, nsGateway))
            /\ Token(line', n.net4Fields, nsGateway) \in HashWords \cup ColonWords) =>
               /\ err' = "nil"
               /\ n'.state = n.state
               /\ Elems(heap', n'.netData) = Elems(heap, n.netData)
        /\ (/\ n.state = netstatParserStateInternet6Data
            /\ InRange(Fields(line'), MapGet(n.net6Fields, nsGateway))
            /\ Token(line', n.net6Fields, nsGateway) \in HashWords) =>
               /\ err' = "nil"
               /\ n'.state = n.state
               /\ Elems(heap', n'.netData) = Elems(heap, n.netData)
        /\ (/\ n.state = netstatParserStateInternet6Data
            /\ HasColumns(line', n.net6Fields)
            /\ Token(line', n.net6Fields, nsGateway) \in ColonWords \ HashWords
            /\ ParseAddr(Token(line', n.net6Fields, nsGateway)).ok
            /\ ParseAddr(Dest6(line', n.net6Fields)).ok) =>
               /\ err' = "nil"
               /\ n'.netData.len = n.netData.len + 1]_vars

\* with a route held, an IPv4 section was fed the row whose gateway is
\* fe80::1%en0 and kept the list as long as it was
C14_Witness ==
    /\ op = "feed"
    /\ pre.state = netstatParserStateInternet4Data
    /\ pre.len >= 1
    /\ line = Sp(<<"2001:db8::/32", "fe80::1%en0", "UG", "en1">>)
    /\ err = "nil"
    /\ n.state = netstatParserStateInternet4Data
    /\ n.netData.len = pre.len

\* the last feed ran in a data state on a row with default as destination
\* and a gateway that parses and is not taken for a link-level address
DefaultRow(state, m, linkWords) ==
    /\ op = "feed"
    /\ pre.state = state
    /\ InRange(Fields(line), MapGet(m, nsDestination))
    /\ InRange(Fields(line), MapGet(m, nsGateway))
    /\ Token(line, m, nsDestination) = "default"
    /\ Token(line, m, nsGateway) \notin linkWords
    /\ ParseAddr(Token(line, m, nsGateway)).ok

\* the route the row l gives
RouteOf(l, kind, dst, m) ==
    [Kind |-> kind,
     Destination |-> dst,
     Flags |-> Token(l, m, nsFlags),
     Netif |-> Token(l, m, nsNetif),
     Gateway |-> ParseAddr(Token(l, m, nsGateway)).addr]

\* the route the row fed last gives
RowRoute(kind, dst, m) == RouteOf(line, kind, dst, m)

\* what C15 says of the feed of such a row
DefaultAppended(kind, dst, m) ==
    /\ err = "nil"
    /\ Len(Routes) = pre.len + 1
    /\ Routes[Len(Routes)] = RowRoute(kind, dst, m)

\* C15: a row with destination default and a parseable gateway that is no
\* link-level address appends one route: 0.0.0.0 and kind V4 in an IPv4
\* section, :: and kind V6 in an IPv6 section, with the row's flags,
\* interface name and gateway.
C15_DefaultRewritten ==
    /\ DefaultRow(netstatParserStateInternet4Data, n.net4Fields, HashWords \cup ColonWords) =>
           DefaultAppended(NetRouteKindV4, Addr4(0, 0, 0, 0), n.net4Fields)
    /\ DefaultRow(netstatParserStateInternet6Data, n.net6Fields, HashWords) =>
           DefaultAppended(NetRouteKindV6, Addr6(<<0, 0, 0, 0>>, <<0, 0>>, ""), n.net6Fields)

\* the part of C15 the code keeps: the same for a row that has a token in
\* each of the four remembered columns
C15_RewriteWhenComplete ==
    /\ (/\ DefaultRow(netstatParserStateInternet4Data, n.net4Fields, HashWords \cup ColonWords)
        /\ HasColumns(line, n.net4Fields)) =>
           DefaultAppended(NetRouteKindV4, Addr4(0, 0, 0, 0), n.net4Fields)
    /\ (/\ DefaultRow(netstatParserStateInternet6Data, n.net6Fields, HashWords)
        /\ HasColumns(line, n.net6Fields)) =>
           DefaultAppended(NetRouteKindV6, Addr6(<<0, 0, 0, 0>>, <<0, 0>>, ""), n.net6Fields)

\* C16: the interface index a column-header line leaves is the position of
\* Interface whenever the line has that column, at any position, and the
\* position of Netif otherwise; it is the index of a column of the line.
C16_InterfaceColumnWins ==
    (/\ op = "feed"
     /\ pre.state \in {netstatParserStateInternet4Header, netstatParserStateInternet6Header}
     /\ n.state \in DataStates) =>
        LET f == Fields(line)
            m == IF pre.state = netstatParserStateInternet4Header
                 THEN n.net4Fields ELSE n.net6Fields
            iface == fieldIdx(f, nsInterface)
        IN  /\ MapGet(m, nsNetif) = (IF iface # -1 THEN iface ELSE fieldIdx(f, nsNetif))
            /\ InRange(f, MapGet(m, nsNetif))

HeaderStates == {netstatParserStateInternet4Header, netstatParserStateInternet6Header}

\* a blank line in a data state ends the section and keeps the routes, and
\* a section name fed in InternetHeader starts the next section and keeps
\* them too
SectionEnds ==
    /\ (n.state \in DataStates /\ IsBlankLine(line')) =>
           /\ err' = "nil"
           /\ n'.state = netstatParserStateInternetHeader
           /\ Elems(heap', n'.netData) = Elems(heap, n.netData)
    /\ (n.state = netstatParserStateInternetHeader /\ IsSectionLine(line')) =>
           /\ err' = "nil"
           /\ n'.state \in HeaderStates
           /\ Elems(heap', n'.netData) = Elems(heap, n.netData)

\* the feed before this one was a banner fed in state InternetHeader, with
\* the routes of a finished section held
AfterSecondBanner ==
    /\ op = "feed"
    /\ pre.state = netstatParserStateInternetHeader
    /\ pre.len >= 1
    /\ IsBannerLine(line)

\* C17: a blank line in a data state moves to InternetHeader keeping the
\* routes; from there the next section is accepted and keeps them, and a
\* second banner and the section name after it are accepted without error.
C17_ReadyForAnotherTable ==
    [][op' = "feed" =>
        /\ SectionEnds
        /\ (n.state = netstatParserStateInternetHeader /\ IsBannerLine(line')) => err' = "nil"
        /\ (AfterSecondBanner /\ IsSectionLine(line')) =>
               (err' = "nil" /\ n'.state \in HeaderStates)]_vars

\* C17 as the code has it: a blank line in a data state moves to
\* InternetHeader keeping the routes, and the next section is accepted and
\* keeps them; a banner fed there returns no error but resets the parser,
\* and the section name after it returns CantParse in state Header.
C17_BannerResets ==
    [][op' = "feed" =>
        /\ SectionEnds
        /\ (n.state = netstatParserStateInternetHeader /\ IsBannerLine(line')) =>
               /\ err' = "nil"
               /\ n'.state = netstatParserStateHeader
               /\ Elems(heap', n'.netData) = <<>>
        /\ (AfterSecondBanner /\ IsSectionLine(line')) =>
               (err' = "ErrCantParse" /\ n'.state = netstatParserStateHeader)]_vars

\* a section had left routes, a blank line ended it, and a second banner
\* was fed: the parser is in Header with no routes
C17_Witness ==
    /\ AfterSecondBanner
    /\ err = "nil"
    /\ n.state = netstatParserStateHeader
    /\ Routes = <<>>

\* the row has a destination and a gateway token in the remembered columns
HasAddressTokens(l, m) ==
    /\ InRange(Fields(l), MapGet(m, nsDestination))
    /\ InRange(Fields(l), MapGet(m, nsGateway))

\* the step left the parser (state, column maps, route list) as it was
ParserUntouched == n' = n /\ Elems(heap', n'.netData) = Elems(heap, n.netData)

Dest4(l, m) ==
    LET d == Token(l, m, nsDestination)
    IN  IF d = "default" THEN "0.0.0.0" ELSE d

\* a row the IPv4 section accepts: a token in every remembered column, no
\* link-level gateway, destination and gateway parse
Accepted4(l, m) ==
    /\ ~IsBlankLine(l)
    /\ HasColumns(l, m)
    /\ Token(l, m, nsGateway) \notin HashWords \cup ColonWords
    /\ ParseAddr(Dest4(l, m)).ok
    /\ ParseAddr(Token(l, m, nsGateway)).ok

\* a row the IPv6 section accepts
Accepted6(l, m) ==
    /\ ~IsBlankLine(l)
    /\ HasColumns(l, m)
    /\ Token(l, m, nsGateway) \notin HashWords
    /\ ParseAddr(Dest6(l, m)).ok
    /\ ParseAddr(Token(l, m, nsGateway)).ok

\* the step ran reset: only reset leads to state Header
ResetTriggered == n.state # netstatParserStateHeader /\ n'.state = netstatParserStateHeader

\* C19: an accepted row appends its one route at the end of the list, and
\* a feed that triggers no reset leaves the routes held where they are,
\* adding at most one behind them; rows of equal destination are all kept.
C19_AppendOnly ==
    [][op' = "feed" =>
        LET old == Elems(heap, n.netData)
            new == Elems(heap', n'.netData)
        IN  /\ (n.state = netstatParserStateInternet4Data /\ Accepted4(line', n.net4Fields)) =>
                   new = Append(old, RouteOf(line', NetRouteKindV4,
                                             ParseAddr(Dest4(line', n.net4Fields)).addr,
                                             n.net4Fields))
            /\ (n.state = netstatParserStateInternet6Data /\ Accepted6(line', n.net6Fields)) =>
                   new = Append(old, RouteOf(line', NetRouteKindV6,
                                             ParseAddr(Dest6(line', n.net6Fields)).addr,
                                             n.net6Fields))
            /\ ~ResetTriggered =>
                   /\ Len(new) \in {Len(old), Len(old) + 1}
                   /\ SubSeq(new, 1, Len(old)) = old
                   /\ Len(new) = Len(old) + 1 => n.state \in DataStates]_vars

\* the same row was accepted twice and the list holds its route twice
C19_Witness ==
    /\ op = "feed"
    /\ pre.state \in DataStates
    /\ pre.len = 1
    /\ Len(Routes) = 2
    /\ Routes[1] = Routes[2]

\* C20: whenever the parser is in state Header it holds no route and both
\* column maps are empty.
C20_HeaderMeansEmpty ==
    n.state = netstatParserStateHeader =>
        /\ Routes = <<>>
        /\ n.netData.len = 0
        /\ DOMAIN n.net4Fields = {}
        /\ DOMAIN n.net6Fields = {}

\* with a route held, an IPv6 column-header line without Flags was fed:
\* Destination and Gateway had been recorded when the reset came
C20_Witness ==
    /\ op = "feed"
    /\ pre.state = netstatParserStateInternet6Header
    /\ pre.len >= 1
    /\ line = Sp(<<"Destination", "Gateway", "Netif", "Expire">>)
    /\ n.state = netstatParserStateHeader
    /\ DOMAIN n.net6Fields = {}

====
